---- MODULE Spec2Model ----
(***************************************************************************)
(* Model of server/analytics/service.go: the analytics service with its    *)
(* three operations GetSpendingAnalytics, AnalyzeTimePatterns and          *)
(* PredictFutureSpending over a Repository (the Transaction Source).       *)
(*                                                                         *)
(* Numbers.  float64 values are modelled by exact integers and rationals:  *)
(*   - category totals are integers in thousandths of a currency unit, so  *)
(*     that fmt.Sprintf("%.2f") (two decimals) really loses information;   *)
(*   - transaction amounts are integers in whole currency units;           *)
(*   - quotients (AverageSpend, Likelihood, MonthlyAverage) are rationals  *)
(*     [num, den], compared by cross multiplication;                       *)
(*   - a formatted two-decimal string is the integer number of hundredths  *)
(*     it denotes, or NaN for the string "NaN".                            *)
(* Time.  A time.Time is an integer number of hours since a Monday 00:00;  *)
(* a time.Duration is a number of hours.                                   *)
(* Maps.  Go iterates a map in an unspecified order: every `range` over a  *)
(* map is a loop whose next key is chosen nondeterministically.            *)
(* Optional values (a nil pointer, a nil error, an empty string) are       *)
(* sequences of length 0, present values sequences of length >= 1.         *)
(***************************************************************************)
EXTENDS Integers, Sequences, FiniteSets, TLC

VARIABLES
    op,                   \* the exported method being served
    pc,                   \* position of the call in the code
    timeRange,            \* GetSpendingAnalytics' timeRange argument
    fetches,              \* Repository calls issued by the current request
    categoryTotals,       \* GetSpendingAnalytics: categoryTotals (line 81)
    unvisited,            \* keys of categoryTotals the range loop has not seen
    totalSpent,           \* GetSpendingAnalytics: totalSpent (line 86)
    topCategories,        \* GetSpendingAnalytics: topCategories (line 87)
    transactions,         \* the transactions last returned by GetTransactions
    patterns,             \* AnalyzeTimePatterns: patterns (line 34)
    pending,              \* day -> hours of patterns not yet ranged over
    curDay,               \* the day whose inner range loop is running, or <<>>
    result,               \* AnalyzeTimePatterns: result (line 57)
    categoryTransactions, \* PredictFutureSpending: categoryTransactions
    unvisitedCats,        \* keys of categoryTransactions not yet ranged over
    predictions,          \* PredictFutureSpending: predictions (line 145)
    ret                   \* what the exported method returned: value and err

vars == <<op, pc, timeRange, fetches, categoryTotals, unvisited, totalSpent,
          topCategories, transactions, patterns, pending, curDay, result,
          categoryTransactions, unvisitedCats, predictions, ret>>

----------------------------------------------------------------------------
(* Bounds of the model *)

\* most keys in a category-totals mapping returned by the repository
MaxCats == 6
\* most transactions returned to a direct AnalyzeTimePatterns call
MaxWindowTxns == 5
\* most transactions returned to a direct PredictFutureSpending call
MaxLookbackTxns == 7
\* most transactions returned to a fetch made inside GetSpendingAnalytics
MaxNestedTxns == 1

----------------------------------------------------------------------------
(* Inputs *)

TimeRanges == {"1 month", "3 months", "6 months", "1 year", "all time"}

CategoryNames ==
    <<"Groceries", "Dining", "Rent", "Travel", "Fuel", "Gifts", "Books", "Pets">>

\* Category totals in thousandths.  The first two are the proportions of the
\* 300/200 example; the next four differ only below one cent.
MixedLedger == <<3000, 2000, 1004, 1001, 1003, 1002, 2500, 500>>

LedgerPrefix(ledger, k) ==
    [c \in {CategoryNames[i] : i \in 1..k} |->
        ledger[CHOOSE i \in 1..k : CategoryNames[i] = c]]

\* What GetCategoryTotals may return: the first k categories, with the mixed
\* amounts or with no spending at all.
TotalsInputs ==
    {LedgerPrefix(MixedLedger, k) : k \in 0..MaxCats}
        \cup {LedgerPrefix([i \in 1..Len(CategoryNames) |-> 0], k) : k \in 0..MaxCats}

\* Transactions the repository may hold.  Date 9 is Monday 09h, 14 Monday 14h,
\* 33 Tuesday 09h, 177 the next Monday 09h.
TxnValues ==
    { [Date |-> 9,   Amount |-> -900, Category |-> "Dining"],
      [Date |-> 14,  Amount |-> 900,  Category |-> "Dining"],
      [Date |-> 33,  Amount |-> 1500, Category |-> "Rent"],
      [Date |-> 177, Amount |-> 100,  Category |-> "Dining"] }

SeqsUpTo(S, n) == UNION {[1..k -> S] : k \in 0..n}

\* The most transactions one fetch returns, by the call being served.
TxnBound ==
    CASE op = "AnalyzeTimePatterns" -> MaxWindowTxns
      [] op = "PredictFutureSpending" -> MaxLookbackTxns
      [] OTHER -> MaxNestedTxns

----------------------------------------------------------------------------
(* Library functions *)

Range(s) == {s[i] : i \in 1..Len(s)}

Abs(x) == IF x < 0 THEN -x ELSE x

RECURSIVE GCD(_, _)
GCD(a, b) == IF b = 0 THEN a ELSE GCD(b, a % b)

\* a rational in lowest terms
Rat(n, d) == LET g == GCD(n, d) IN [num |-> n \div g, den |-> d \div g]

RatGreater(a, b) == a.num * b.den > b.num * a.den

NaN == [nan |-> TRUE, hundredths |-> 0]

Num(h) == [nan |-> FALSE, hundredths |-> h]

\* fmt.Sprintf("%.2f", x) for x >= 0 in thousandths: the nearest hundredth
FormatAmount(x) == Num((x + 5) \div 10)

\* fmt.Sprintf("%.2f", (amount/total)*100); 0/0 is NaN in float64
FormatPercentage(amount, total) ==
    IF total = 0 THEN NaN
    ELSE Num((2 * amount * 10000 + total) \div (2 * total))

\* strconv.ParseFloat of a formatted amount, in hundredths
ParseFloat(s) == s.hundredths

Swap(s, i, j) == [s EXCEPT ![i] = s[j], ![j] = s[i]]

\* sort.Slice on the short slices of this model is an insertion sort; less is
\* the comparison function as a table over the elements.  Elements that less
\* does not order keep the order they came in, which for a slice filled from
\* a map is the order of the map's iteration.
RECURSIVE SiftDown(_, _, _)
SiftDown(s, j, less) ==
    IF j > 1 /\ less[<<s[j], s[j - 1]>>]
    THEN SiftDown(Swap(s, j, j - 1), j - 1, less)
    ELSE s

RECURSIVE InsertionSort(_, _, _)
InsertionSort(s, i, less) ==
    IF i > Len(s) THEN s ELSE InsertionSort(SiftDown(s, i, less), i + 1, less)

SortSlice(s, less) == InsertionSort(s, 2, less)

----------------------------------------------------------------------------
(* The request *)

Nil == <<>>

Fetch(call, arg, ok) == [call |-> call, arg |-> arg, ok |-> ok]

Init ==
    /\ op = "none"
    /\ pc = "idle"
    /\ timeRange = ""
    /\ fetches = <<>>
    /\ categoryTotals = <<>>
    /\ unvisited = {}
    /\ totalSpent = 0
    /\ topCategories = <<>>
    /\ transactions = <<>>
    /\ patterns = <<>>
    /\ pending = <<>>
    /\ curDay = Nil
    /\ result = <<>>
    /\ categoryTransactions = <<>>
    /\ unvisitedCats = {}
    /\ predictions = <<>>
    /\ ret = [value |-> Nil, err |-> Nil]

\* Every request starts from fresh locals: the service keeps nothing but repo.
Enter(method, range, at) ==
    /\ pc \in {"idle", "done"}
    /\ op' = method
    /\ pc' = at
    /\ timeRange' = range
    /\ fetches' = <<>>
    /\ categoryTotals' = <<>>
    /\ unvisited' = {}
    /\ totalSpent' = 0
    /\ topCategories' = <<>>
    /\ transactions' = <<>>
    /\ patterns' = <<>>
    /\ pending' = <<>>
    /\ curDay' = Nil
    /\ result' = <<>>
    /\ categoryTransactions' = <<>>
    /\ unvisitedCats' = {}
    /\ predictions' = <<>>
    /\ ret' = [value |-> Nil, err |-> Nil]

CallGetSpendingAnalytics(range) == Enter("GetSpendingAnalytics", range, "totals")

CallAnalyzeTimePatterns == Enter("AnalyzeTimePatterns", "", "atp_fetch")

CallPredictFutureSpending == Enter("PredictFutureSpending", "", "pfs_fetch")

----------------------------------------------------------------------------
(* GetSpendingAnalytics, lines 80-130 *)

TopCount == 5

RepositoryError == "repository error"

\* fmt.Errorf("<context>: %w", err): the context, then the wrapped error
Wrap(context, err) == <<context>> \o err

\* One types.CategorySpend, built inside the range loop from the running total.
CategorySpend(category, amount, runningTotal) ==
    [Category   |-> category,
     TotalSpent |-> FormatAmount(amount),
     Percentage |-> FormatPercentage(amount, runningTotal)]

\* The comparison of lines 98-102: the formatted amounts, parsed back.
LessByAmount(s) ==
    [p \in Range(s) \X Range(s) |->
        ParseFloat(p[1].TotalSpent) > ParseFloat(p[2].TotalSpent)]

Truncate(s) == IF Len(s) > TopCount THEN SubSeq(s, 1, TopCount) ELSE s

\* timeRangeToMonths without its "1 year" case
timeRangeToMonthsNoYear(range) ==
    CASE range = "1 month"  -> 1
      [] range = "3 months" -> 3
      [] range = "6 months" -> 6
      [] OTHER              -> 1

timeRangeToMonths(range) ==
    CASE range = "1 month"  -> 1
      [] range = "3 months" -> 3
      [] range = "6 months" -> 6
      [] range = "1 year"   -> 12
      [] OTHER              -> 1

SpendingAnalytics(top, pats, preds, total, range) ==
    [TopCategories     |-> top,
     SpendingPatterns  |-> pats,
     PredictedSpending |-> preds,
     TotalSpent        |-> total,
     MonthlyAverage    |-> Rat(total, timeRangeToMonths(range))]

GetCategoryTotalsOK ==
    /\ pc = "totals"
    /\ \E m \in TotalsInputs :
           /\ categoryTotals' = m
           /\ unvisited' = DOMAIN m
    /\ fetches' = Append(fetches, Fetch("GetCategoryTotals", timeRange, TRUE))
    /\ pc' = "rank"
    /\ UNCHANGED <<op, timeRange, totalSpent, topCategories, transactions,
                   patterns, pending, curDay, result, categoryTransactions,
                   unvisitedCats, predictions, ret>>

GetCategoryTotalsFail ==
    /\ pc = "totals"
    /\ fetches' = Append(fetches, Fetch("GetCategoryTotals", timeRange, FALSE))
    /\ ret' = [value |-> Nil,
               err |-> Wrap("failed to get category totals", <<RepositoryError>>)]
    /\ pc' = "done"
    /\ UNCHANGED <<op, timeRange, categoryTotals, unvisited, totalSpent,
                   topCategories, transactions, patterns, pending, curDay,
                   result, categoryTransactions, unvisitedCats, predictions>>

\* One iteration of the loop of lines 88-95, on the key the map yields next.
RankVisit(category) ==
    /\ pc = "rank"
    /\ category \in unvisited
    /\ LET amount == categoryTotals[category]
           runningTotal == totalSpent + amount
       IN /\ totalSpent' = runningTotal
          /\ topCategories' =
                Append(topCategories, CategorySpend(category, amount, runningTotal))
    /\ unvisited' = unvisited \ {category}
    /\ UNCHANGED <<op, pc, timeRange, fetches, categoryTotals, transactions,
                   patterns, pending, curDay, result, categoryTransactions,
                   unvisitedCats, predictions, ret>>

\* Lines 97-112: sort, keep the top five, call AnalyzeTimePatterns.
RankSortTruncate ==
    /\ pc = "rank"
    /\ unvisited = {}
    /\ topCategories' =
          Truncate(SortSlice(topCategories, LessByAmount(topCategories)))
    /\ pc' = "atp_fetch"
    /\ UNCHANGED <<op, timeRange, fetches, categoryTotals, unvisited, totalSpent,
                   transactions, patterns, pending, curDay, result,
                   categoryTransactions, unvisitedCats, predictions, ret>>

----------------------------------------------------------------------------
(* AnalyzeTimePatterns, lines 27-78 *)

DayNames ==
    <<"Monday", "Tuesday", "Wednesday", "Thursday", "Friday", "Saturday", "Sunday">>

\* t.Date.Format("Monday")
DayOfWeek(date) == DayNames[((date \div 24) % 7) + 1]

\* t.Date.Format("15:00"): the hour h stands for the label "h:00"
HourOfDay(date) == date % 24

MapPut(m, k, v) == [x \in DOMAIN m \cup {k} |-> IF x = k THEN v ELSE m[x]]

MapDelete(m, k) == [x \in DOMAIN m \ {k} |-> m[x]]

\* Accumulate that starts the bucket again at every transaction
AccumulateOverwriting(stats, t) == [totalAmount |-> Abs(t.Amount), count |-> 1]

\* Lines 50-52: one transaction added to the statistics of its bucket.
Accumulate(stats, t) ==
    [totalAmount |-> stats.totalAmount + Abs(t.Amount), count |-> stats.count + 1]

\* The loop of lines 39-54 from transaction i on.
RECURSIVE GroupByDayHour(_, _, _)
GroupByDayHour(txns, i, acc) ==
    IF i > Len(txns) THEN acc
    ELSE LET t == txns[i]
             dayOfWeek == DayOfWeek(t.Date)
             hourOfDay == HourOfDay(t.Date)
             hours == IF dayOfWeek \in DOMAIN acc THEN acc[dayOfWeek] ELSE <<>>
             stats == IF hourOfDay \in DOMAIN hours THEN hours[hourOfDay]
                      ELSE [totalAmount |-> 0, count |-> 0]
         IN GroupByDayHour(txns, i + 1,
                           MapPut(acc, dayOfWeek,
                                  MapPut(hours, hourOfDay, Accumulate(stats, t))))

TimePattern(day, hour, stats) ==
    [TimeOfDay    |-> hour,
     DayOfWeek    |-> day,
     Frequency    |-> stats.count,
     AverageSpend |-> Rat(stats.totalAmount, stats.count)]

\* LessPattern without the comparison of the average spends
LessPatternByFrequencyOnly(s) ==
    [p \in Range(s) \X Range(s) |-> p[1].Frequency > p[2].Frequency]

\* The comparison of lines 70-75.
LessPattern(s) ==
    [p \in Range(s) \X Range(s) |->
        IF p[1].Frequency = p[2].Frequency
        THEN RatGreater(p[1].AverageSpend, p[2].AverageSpend)
        ELSE p[1].Frequency > p[2].Frequency]

\* Where a call returns to, and with what, by the method being served.
PatternsError ==
    IF op = "GetSpendingAnalytics"
    THEN Wrap("failed to analyze time patterns",
              Wrap("failed to get transactions", <<RepositoryError>>))
    ELSE Wrap("failed to get transactions", <<RepositoryError>>)

\* Lines 28-54: the fetch succeeded and the transactions are grouped.
ATPFetchOK ==
    /\ pc = "atp_fetch"
    /\ \E txns \in SeqsUpTo(TxnValues, TxnBound) :
           /\ transactions' = txns
           /\ patterns' = GroupByDayHour(txns, 1, <<>>)
    /\ fetches' = Append(fetches, Fetch("GetTransactions", "endDate - startDate", TRUE))
    /\ pending' = [d \in DOMAIN patterns' |-> DOMAIN patterns'[d]]
    /\ curDay' = Nil
    /\ result' = <<>>
    /\ pc' = "atp_convert"
    /\ UNCHANGED <<op, timeRange, categoryTotals, unvisited, totalSpent,
                   topCategories, categoryTransactions, unvisitedCats,
                   predictions, ret>>

\* ATPFetchFail with GetSpendingAnalytics going on after the error
ATPFetchFailIgnored ==
    /\ pc = "atp_fetch"
    /\ fetches' = Append(fetches, Fetch("GetTransactions", "endDate - startDate", FALSE))
    /\ IF op = "GetSpendingAnalytics"
       THEN pc' = "pfs_fetch" /\ ret' = ret
       ELSE pc' = "done" /\ ret' = [value |-> Nil, err |-> PatternsError]
    /\ UNCHANGED <<op, timeRange, categoryTotals, unvisited, totalSpent,
                   topCategories, transactions, patterns, pending, curDay,
                   result, categoryTransactions, unvisitedCats, predictions>>

\* Lines 29-31, and lines 113-115 when called from GetSpendingAnalytics.
ATPFetchFail ==
    /\ pc = "atp_fetch"
    /\ fetches' = Append(fetches, Fetch("GetTransactions", "endDate - startDate", FALSE))
    /\ ret' = [value |-> Nil, err |-> PatternsError]
    /\ pc' = "done"
    /\ UNCHANGED <<op, timeRange, categoryTotals, unvisited, totalSpent,
                   topCategories, transactions, patterns, pending, curDay,
                   result, categoryTransactions, unvisitedCats, predictions>>

\* One iteration of the inner loop of lines 58-67: the outer loop stays on a
\* day until its hours are exhausted.
ATPVisit(day, hour) ==
    /\ pc = "atp_convert"
    /\ day \in DOMAIN pending
    /\ curDay \in {Nil, <<day>>}
    /\ hour \in pending[day]
    /\ result' = Append(result, TimePattern(day, hour, patterns[day][hour]))
    /\ LET rest == pending[day] \ {hour}
       IN /\ pending' = IF rest = {} THEN MapDelete(pending, day)
                        ELSE [pending EXCEPT ![day] = rest]
          /\ curDay' = IF rest = {} THEN Nil ELSE <<day>>
    /\ UNCHANGED <<op, pc, timeRange, fetches, categoryTotals, unvisited,
                   totalSpent, topCategories, transactions, patterns,
                   categoryTransactions, unvisitedCats, predictions, ret>>

\* Lines 69-77, and line 118 when called from GetSpendingAnalytics.
ATPSortReturn ==
    /\ pc = "atp_convert"
    /\ DOMAIN pending = {}
    /\ result' = SortSlice(result, LessPattern(result))
    /\ IF op = "GetSpendingAnalytics"
       THEN pc' = "pfs_fetch" /\ ret' = ret
       ELSE pc' = "done" /\ ret' = [value |-> <<result'>>, err |-> Nil]
    /\ UNCHANGED <<op, timeRange, fetches, categoryTotals, unvisited, totalSpent,
                   topCategories, transactions, patterns, pending, curDay,
                   categoryTransactions, unvisitedCats, predictions>>

----------------------------------------------------------------------------
(* PredictFutureSpending, lines 132-200 *)

MinTransactions == 3

LookbackDays == 180

FrequencyDays == 30

AmountScale == 1000

\* the 0.7 of line 181
WarningThreshold == Rat(7, 10)

RatAdd(a, b) == Rat(a.num * b.den + b.num * a.den, a.den * b.den)

RatMin(a, b) == IF RatGreater(a, b) THEN b ELSE a

\* The loop of lines 141-143 from transaction i on.
RECURSIVE GroupByCategory(_, _, _)
GroupByCategory(txns, i, acc) ==
    IF i > Len(txns) THEN acc
    ELSE LET t == txns[i]
             sofar == IF t.Category \in DOMAIN acc THEN acc[t.Category] ELSE <<>>
         IN GroupByCategory(txns, i + 1, MapPut(acc, t.Category, Append(sofar, t)))

\* The comparison of lines 152-154: txns[i].Date.Before(txns[j].Date)
LessByDate(s) == [p \in Range(s) \X Range(s) |-> p[1].Date < p[2].Date]

\* Lines 157-161: the mean gap between consecutive transactions.
RECURSIVE TotalDuration(_, _)
TotalDuration(txns, i) ==
    IF i > Len(txns) THEN 0
    ELSE (txns[i].Date - txns[i - 1].Date) + TotalDuration(txns, i + 1)

\* Integer division, as time.Duration's; the total is never negative.
AvgTimeBetween(txns) == TotalDuration(txns, 2) \div (Len(txns) - 1)

\* Lines 165-168: the sum of the absolute amounts.
RECURSIVE TotalAmount(_, _)
TotalAmount(txns, i) ==
    IF i > Len(txns) THEN 0 ELSE Abs(txns[i].Amount) + TotalAmount(txns, i + 1)

\* Line 172: math.Min(frequency*30, 1.0), frequency = len(txns)/180
NormalizedFreq(n) == RatMin(Rat(n * FrequencyDays, LookbackDays), Rat(1, 1))

\* Line 173: math.Min(avgAmount/1000, 1.0), avgAmount = totalAmount/len(txns)
NormalizedAmount(total, n) == RatMin(Rat(total, n * AmountScale), Rat(1, 1))

\* Line 174
Likelihood(txns) ==
    LET sum == RatAdd(NormalizedFreq(Len(txns)),
                      NormalizedAmount(TotalAmount(txns, 1), Len(txns)))
    IN Rat(sum.num, 2 * sum.den)

\* Warning with the threshold included
WarningFromThreshold(category, likelihood, predictedDate) ==
    IF ~RatGreater(WarningThreshold, likelihood)
    THEN <<"High likelihood of spending",
           (200 * likelihood.num + likelihood.den) \div (2 * likelihood.den),
           category, predictedDate>>
    ELSE Nil

\* Lines 180-184: "" or the message with its three arguments; %.0f rounds
\* likelihood*100 to a whole number.
Warning(category, likelihood, predictedDate) ==
    IF RatGreater(likelihood, WarningThreshold)
    THEN <<"High likelihood of spending",
           (200 * likelihood.num + likelihood.den) \div (2 * likelihood.den),
           category, predictedDate>>
    ELSE Nil

\* Lines 151-191 for one category's transactions, already sorted by date.
PredictedSpend(category, txns) ==
    LET likelihood == Likelihood(txns)
        predictedDate == txns[Len(txns)].Date + AvgTimeBetween(txns)
    IN [Category      |-> category,
        Likelihood    |-> likelihood,
        PredictedDate |-> predictedDate,
        Warning       |-> Warning(category, likelihood, predictedDate)]

\* Skipped with three transactions still too few
SkippedUpToMin(txns) == Len(txns) <= MinTransactions

\* Lines 147-149
Skipped(txns) == Len(txns) < MinTransactions

\* The comparison of lines 195-197.
LessByLikelihood(s) ==
    [p \in Range(s) \X Range(s) |-> RatGreater(p[1].Likelihood, p[2].Likelihood)]

PredictError ==
    IF op = "GetSpendingAnalytics"
    THEN Wrap("failed to predict spending",
              Wrap("failed to get transactions", <<RepositoryError>>))
    ELSE Wrap("failed to get transactions", <<RepositoryError>>)

\* Lines 134-143: the fetch succeeded and the transactions are grouped.
PFSFetchOK ==
    /\ pc = "pfs_fetch"
    /\ \E txns \in SeqsUpTo(TxnValues, TxnBound) :
           /\ transactions' = txns
           /\ categoryTransactions' = GroupByCategory(txns, 1, <<>>)
    /\ fetches' = Append(fetches, Fetch("GetTransactions", "6 months", TRUE))
    /\ unvisitedCats' = DOMAIN categoryTransactions'
    /\ predictions' = <<>>
    /\ pc' = "pfs_visit"
    /\ UNCHANGED <<op, timeRange, categoryTotals, unvisited, totalSpent,
                   topCategories, patterns, pending, curDay, result, ret>>

\* Lines 135-137, and lines 119-121 when called from GetSpendingAnalytics.
PFSFetchFail ==
    /\ pc = "pfs_fetch"
    /\ fetches' = Append(fetches, Fetch("GetTransactions", "6 months", FALSE))
    /\ ret' = [value |-> Nil, err |-> PredictError]
    /\ pc' = "done"
    /\ UNCHANGED <<op, timeRange, categoryTotals, unvisited, totalSpent,
                   topCategories, transactions, patterns, pending, curDay,
                   result, categoryTransactions, unvisitedCats, predictions>>

\* One iteration of the loop of lines 146-192, on the key the map yields
\* next.  sort.Slice sorts the map's slice in place.
PFSVisit(category) ==
    /\ pc = "pfs_visit"
    /\ category \in unvisitedCats
    /\ LET txns == categoryTransactions[category]
           sorted == SortSlice(txns, LessByDate(txns))
       IN IF Skipped(txns)
          THEN UNCHANGED <<categoryTransactions, predictions>>
          ELSE /\ categoryTransactions' =
                     [categoryTransactions EXCEPT ![category] = sorted]
               /\ predictions' = Append(predictions, PredictedSpend(category, sorted))
    /\ unvisitedCats' = unvisitedCats \ {category}
    /\ UNCHANGED <<op, pc, timeRange, fetches, categoryTotals, unvisited,
                   totalSpent, topCategories, transactions, patterns, pending,
                   curDay, result, ret>>

\* Lines 194-199, and lines 123-129 when called from GetSpendingAnalytics.
PFSSortReturn ==
    /\ pc = "pfs_visit"
    /\ unvisitedCats = {}
    /\ predictions' = SortSlice(predictions, LessByLikelihood(predictions))
    /\ ret' = [value |-> IF op = "GetSpendingAnalytics"
                         THEN <<SpendingAnalytics(topCategories, result, predictions',
                                                  totalSpent, timeRange)>>
                         ELSE <<predictions'>>,
               err |-> Nil]
    /\ pc' = "done"
    /\ UNCHANGED <<op, timeRange, fetches, categoryTotals, unvisited, totalSpent,
                   topCategories, transactions, patterns, pending, curDay,
                   result, categoryTransactions, unvisitedCats>>

----------------------------------------------------------------------------
(* Specifications *)

\* The aggregator: requests to GetSpendingAnalytics.
Next ==
    \/ \E range \in TimeRanges : CallGetSpendingAnalytics(range)
    \/ GetCategoryTotalsOK
    \/ GetCategoryTotalsFail
    \/ \E category \in unvisited : RankVisit(category)
    \/ RankSortTruncate
    \/ ATPFetchOK
    \/ ATPFetchFail
    \/ \E day \in DOMAIN pending : \E hour \in pending[day] : ATPVisit(day, hour)
    \/ ATPSortReturn
    \/ PFSFetchOK
    \/ PFSFetchFail
    \/ \E category \in unvisitedCats : PFSVisit(category)
    \/ PFSSortReturn

Spec == Init /\ [][Next]_vars

\* Requests to AnalyzeTimePatterns.
NextPatterns ==
    \/ CallAnalyzeTimePatterns
    \/ ATPFetchOK
    \/ ATPFetchFail
    \/ \E day \in DOMAIN pending : \E hour \in pending[day] : ATPVisit(day, hour)
    \/ ATPSortReturn

SpecPatterns == Init /\ [][NextPatterns]_vars

\* Requests to PredictFutureSpending.
NextPredict ==
    \/ CallPredictFutureSpending
    \/ PFSFetchOK
    \/ PFSFetchFail
    \/ \E category \in unvisitedCats : PFSVisit(category)
    \/ PFSSortReturn

SpecPredict == Init /\ [][NextPredict]_vars

----------------------------------------------------------------------------
(* Properties *)

RECURSIVE SumOver(_, _)
SumOver(f, S) ==
    IF S = {} THEN 0
    ELSE LET k == CHOOSE k \in S : TRUE IN f[k] + SumOver(f, S \ {k})

\* the sum of the amounts of a category-totals mapping
Total(m) == SumOver(m, DOMAIN m)

RankingDone == op = "GetSpendingAnalytics" /\ pc = "rank" /\ unvisited = {}

Returned(method) == op = method /\ pc = "done" /\ ret.err = Nil

RECURSIVE SumPercentages(_, _)
SumPercentages(s, i) ==
    IF i > Len(s) THEN 0 ELSE s[i].Percentage.hundredths + SumPercentages(s, i + 1)

\* C1: when the category totals have a positive sum, each category's
\* percentage is its amount over the final total of all categories, times
\* 100, to two decimals, whatever the order in which the map was visited, and
\* the percentages of the full set, before truncation, sum to 100 within the
\* rounding of two decimals.
C1_PercentageOfFinalTotal ==
    (RankingDone /\ Total(categoryTotals) > 0) =>
        /\ \A i \in 1..Len(topCategories) :
              topCategories[i].Percentage =
                  FormatPercentage(categoryTotals[topCategories[i].Category],
                                   Total(categoryTotals))
        /\ Abs(SumPercentages(topCategories, 1) - 10000) <= Len(topCategories)

\* C2: when the category totals sum to zero, every category of the ranking
\* has percentage 0: never the NaN of a division of zero by zero.
C2_ZeroTotalPercentageZero ==
    (op = "GetSpendingAnalytics" /\ Total(categoryTotals) = 0) =>
        \A i \in 1..Len(topCategories) : topCategories[i].Percentage = Num(0)

\* C3: the TopCategories returned hold at most 5 entries, in order of
\* non-increasing amount, and no category is returned while a category of
\* larger amount is dropped.
C3_TopFiveByAmount ==
    Returned("GetSpendingAnalytics") =>
        LET top == ret.value[1].TopCategories
            kept == {top[i].Category : i \in 1..Len(top)}
        IN /\ Len(top) <= 5
           /\ \A i, j \in 1..Len(top) :
                 i < j => categoryTotals[top[i].Category] >= categoryTotals[top[j].Category]
           /\ \A c \in kept : \A d \in DOMAIN categoryTotals \ kept :
                 categoryTotals[d] <= categoryTotals[c]

\* C4: every PredictedSpend has a likelihood in [0, 1], and carries a warning
\* exactly when its likelihood is above 0.7: at 0.7 it carries none.
C4_LikelihoodBoundedWarningIffHigh ==
    \A i \in 1..Len(predictions) :
        LET p == predictions[i]
        IN /\ p.Likelihood.den > 0
           /\ 0 <= p.Likelihood.num
           /\ p.Likelihood.num <= p.Likelihood.den
           /\ (p.Warning # <<>>) <=> (10 * p.Likelihood.num > 7 * p.Likelihood.den)

C4_Witness ==
    /\ Returned("PredictFutureSpending")
    /\ \E i, j \in 1..Len(ret.value[1]) :
          /\ ret.value[1][i].Likelihood = [num |-> 7, den |-> 10]
          /\ ret.value[1][i].Warning = <<>>
          /\ ret.value[1][j].Warning # <<>>

CountOf(category) ==
    Cardinality({i \in 1..Len(transactions) : transactions[i].Category = category})

Occurrences(category) ==
    Cardinality({i \in 1..Len(ret.value[1]) : ret.value[1][i].Category = category})

\* C5: of the categories of the fetched transactions, one with fewer than 3
\* transactions is not in the output of PredictFutureSpending, and one with 3
\* or more is in it exactly once; the output names no other category.
C5_ThreeTransactionsNeeded ==
    Returned("PredictFutureSpending") =>
        /\ \A i \in 1..Len(transactions) :
              LET c == transactions[i].Category
              IN Occurrences(c) = IF CountOf(c) < 3 THEN 0 ELSE 1
        /\ \A i \in 1..Len(ret.value[1]) : CountOf(ret.value[1][i].Category) >= 3

C5_Witness ==
    /\ Returned("PredictFutureSpending")
    /\ \E i, j \in 1..Len(transactions) :
          /\ CountOf(transactions[i].Category) = 2
          /\ Occurrences(transactions[i].Category) = 0
          /\ CountOf(transactions[j].Category) = 3
          /\ Occurrences(transactions[j].Category) = 1

RECURSIVE SumFrequency(_, _)
SumFrequency(s, i) ==
    IF i > Len(s) THEN 0 ELSE s[i].Frequency + SumFrequency(s, i + 1)

\* C6: the frequencies of the patterns returned by AnalyzeTimePatterns sum to
\* the number of transactions fetched, every pattern has frequency >= 1, no
\* (day, hour) is returned twice, and no transactions give an empty result
\* without error.
C6_FrequenciesCountTransactions ==
    (op = "AnalyzeTimePatterns" /\ pc = "done" /\ fetches[1].ok) =>
        /\ ret.err = Nil
        /\ Len(ret.value) = 1
        /\ LET out == ret.value[1]
           IN /\ SumFrequency(out, 1) = Len(transactions)
              /\ \A i \in 1..Len(out) : out[i].Frequency >= 1
              /\ \A i, j \in 1..Len(out) :
                    (out[i].DayOfWeek = out[j].DayOfWeek
                        /\ out[i].TimeOfDay = out[j].TimeOfDay) => i = j
              /\ (Len(transactions) = 0) => (out = <<>>)

C6_Witness ==
    /\ Returned("AnalyzeTimePatterns")
    /\ Len(ret.value[1]) >= 2
    /\ \E i \in 1..Len(ret.value[1]) : ret.value[1][i].Frequency >= 2

\* C7: in the list returned by AnalyzeTimePatterns no element has a lower
\* frequency than a later one, and of two elements of equal frequency the
\* earlier has no lower average spend.
C7_SortedByFrequencyThenAverage ==
    Returned("AnalyzeTimePatterns") =>
        LET out == ret.value[1]
        IN \A i, j \in 1..Len(out) :
              i < j =>
                 /\ out[i].Frequency >= out[j].Frequency
                 /\ (out[i].Frequency = out[j].Frequency) =>
                        out[i].AverageSpend.num * out[j].AverageSpend.den
                            >= out[j].AverageSpend.num * out[i].AverageSpend.den

C7_Witness ==
    /\ Returned("AnalyzeTimePatterns")
    /\ LET out == ret.value[1]
       IN /\ Len(out) = 3
          /\ out[1].Frequency > out[2].Frequency
          /\ out[2].Frequency = out[3].Frequency
          /\ out[2].AverageSpend # out[3].AverageSpend

Failed == {i \in 1..Len(fetches) : ~fetches[i].ok}

\* C8: GetSpendingAnalytics fetches the category totals, then the
\* transactions for the time patterns, then those for the predictions, each
\* at most once; once a fetch fails no other is made, and the call returns an
\* error and no SpendingAnalytics.
C8_FetchFailureAborts ==
    (op = "GetSpendingAnalytics") =>
        /\ Len(fetches) <= 3
        /\ \A i \in 1..Len(fetches) :
              /\ fetches[i].call = <<"GetCategoryTotals", "GetTransactions", "GetTransactions">>[i]
              /\ fetches[i].arg = <<timeRange, "endDate - startDate", "6 months">>[i]
        /\ Failed \subseteq {Len(fetches)}
        /\ (Failed # {}) => (pc = "done" /\ ret.err # Nil /\ ret.value = Nil)
        /\ (pc = "done" /\ Failed = {}) => (Len(fetches) = 3 /\ ret.err = Nil /\ Len(ret.value) = 1)

C8_Witness ==
    /\ op = "GetSpendingAnalytics"
    /\ pc = "done"
    /\ Len(fetches) = 2
    /\ ~fetches[2].ok
    /\ ret.value = Nil
    /\ ret.err # Nil

\* C9: on success GetSpendingAnalytics returns the sum of all the category
\* totals, those of truncated categories included, as TotalSpent, and
\* TotalSpent over the months of the time range as MonthlyAverage: 1, 3, 6
\* and 12 months for "1 month", "3 months", "6 months" and "1 year", and 1
\* for any other label.
C9_TotalAndMonthlyAverage ==
    Returned("GetSpendingAnalytics") =>
        LET months == CASE timeRange = "1 month" -> 1
                        [] timeRange = "3 months" -> 3
                        [] timeRange = "6 months" -> 6
                        [] timeRange = "1 year" -> 12
                        [] OTHER -> 1
            got == ret.value[1]
        IN /\ got.TotalSpent = Total(categoryTotals)
           /\ got.MonthlyAverage.den > 0
           /\ got.MonthlyAverage.num * months = got.TotalSpent * got.MonthlyAverage.den

C9_Witness ==
    /\ Returned("GetSpendingAnalytics")
    /\ timeRange = "1 year"
    /\ Cardinality(DOMAIN categoryTotals) > 5
    /\ Len(ret.value[1].TopCategories) = 5
    /\ ret.value[1].TotalSpent > 0

Buckets == UNION {{<<d, h>> : h \in DOMAIN patterns[d]} : d \in DOMAIN patterns}

\* The orders in which the nested range loops of lines 58-67 can yield the
\* buckets: any order that keeps the hours of a day together.
IterationOrders ==
    {o \in [1..Cardinality(Buckets) -> Buckets] :
        /\ \A i, j \in DOMAIN o : o[i] = o[j] => i = j
        /\ \A i, j, k \in DOMAIN o :
              (i < j /\ j < k /\ o[i][1] = o[k][1]) => o[j][1] = o[i][1]}

OutputFor(o) ==
    LET list == [i \in DOMAIN o |-> TimePattern(o[i][1], o[i][2], patterns[o[i][1]][o[i][2]])]
    IN SortSlice(list, LessPattern(list))

\* C10: the sequence AnalyzeTimePatterns returns is determined by the
\* transactions alone: it is the same for every order in which the grouping
\* map can be iterated, also when two buckets have equal frequency and equal
\* average spend.
C10_OutputDeterminedByInput ==
    Returned("AnalyzeTimePatterns") =>
        \A o \in IterationOrders : ret.value[1] = OutputFor(o)

====
